---- MODULE Spec2Model ----
(***************************************************************************)
(* Model of the documentation assistant's indexing pipeline:               *)
(*   - DocumentProcessor.split_text / load_document / load_uploaded_file   *)
(*     (src/document_processor.py), stepped one loop iteration at a time;  *)
(*   - DocumentProcessor.filter_changed_documents;                         *)
(*   - check_for_updates and the two triggers of main (src/app.py).        *)
(* Strings are sequences of one-character strings, indexed from 1 in TLA+  *)
(* and from 0 in the Python operators modelled below.                      *)
(***************************************************************************)
EXTENDS Integers, Sequences, FiniteSets, TLC

\* ------------------------------------------------------------------ bounds
MaxLen == 5
MaxChunkSize == 3
\* No terminating run of the loop needs this many iterations: the loop body
\* is a function of (text, start) and start ranges over fewer values.
MaxIter == MaxLen + MaxChunkSize + 2

\* ------------------------------------------------------------ characters
Chars == {"a", " ", ".", "\n"}
\* the characters str.strip() removes, among Chars
Whitespace == {" ", "\n"}

VARIABLES
    text,           \* the content handed to split_text
    chunk_size,     \* self.chunk_size
    chunk_overlap,  \* self.chunk_overlap
    spc,            \* position in split_text / load_document
    start,          \* split_text's local `start`
    chunks,         \* split_text's local `chunks`, then its return value
    spans,          \* history: the <<start, end, kind>> of each iteration
    documents,      \* the batch returned by load_document/load_uploaded_file
    \* ---- the application (src/app.py) and its collaborators
    mpc,            \* position of the script run in main
    cpc,            \* position inside check_for_updates ("idle": not running)
    caller,         \* which trigger called check_for_updates
    result,         \* the value check_for_updates returns
    clock,          \* time.time()
    last_auto_check, \* st.session_state.last_auto_check
    last_update,    \* st.session_state.last_update
    remote,         \* watcher: content version of each file upstream
    disk,           \* content version of each file under DOCS_REPO_PATH
    pulled,         \* watcher: the files the last pull changed
    index,          \* the chunks held by st.session_state.rag
    changed_files,  \* check_for_updates' local
    docs,           \* check_for_updates' local
    changed_docs,   \* check_for_updates' local
    snap,           \* history: index and last_update when the cycle began
    calls,          \* history: collaborator calls made by the current cycle
    watcher_calls,  \* history: watcher polls made by the current script run
    overlapped,     \* history: the timer was due before the manual cycle returned
    \* ---- process_uploaded_sources (src/app.py) and the ingestors
    upc,            \* position inside process_uploaded_sources
    request,        \* its arguments, and what each fetch will meet
    temp,           \* the temporary directories and files that exist
    fetched,        \* what each ingestor returned ("unset" before its call)
    uploaded_docs,  \* process_uploaded_sources' local `all_docs`
    returned        \* the value process_uploaded_sources returned

svars == <<text, chunk_size, chunk_overlap, spc, start, chunks, spans, documents>>
yvars == <<mpc, cpc, caller, result, clock, last_auto_check, last_update, remote,
           disk, pulled, index, changed_files, docs, changed_docs, snap, calls,
           watcher_calls, overlapped>>
uvars == <<upc, request, temp, fetched, uploaded_docs, returned>>
vars == <<svars, yvars, uvars>>

\* ------------------------------------------------------- Python operators
SetMax(S) == CHOOSE x \in S : \A y \in S : y <= x
SetMin(S) == CHOOSE x \in S : \A y \in S : x <= y

\* slice-index normalisation shared by str.rfind and s[lo:hi]
PyClamp(i, n) ==
    IF i < 0 THEN (IF i + n < 0 THEN 0 ELSE i + n)
             ELSE (IF i > n THEN n ELSE i)

\* s[i : i+len(sub)] == sub, i counted from 0
MatchesAt(s, sub, i) ==
    /\ i >= 0
    /\ i + Len(sub) <= Len(s)
    /\ \A k \in 1..Len(sub) : s[i + k] = sub[k]

\* s.rfind(sub, lo, hi): highest index in the normalised slice, else -1
rfind(s, sub, lo, hi) ==
    LET a == PyClamp(lo, Len(s))
        b == PyClamp(hi, Len(s))
        found == {i \in a..(b - Len(sub)) : MatchesAt(s, sub, i)}
    IN  IF found = {} THEN -1 ELSE SetMax(found)

\* s[lo:hi]
Slice(s, lo, hi) ==
    LET a == PyClamp(lo, Len(s))
        b == PyClamp(hi, Len(s))
    IN  IF a >= b THEN <<>> ELSE SubSeq(s, a + 1, b)

\* s.strip()
strip(s) ==
    LET keep == {i \in 1..Len(s) : s[i] \notin Whitespace}
    IN  IF keep = {} THEN <<>> ELSE SubSeq(s, SetMin(keep), SetMax(keep))

\* `sub in s`
Contains(s, sub) == \E i \in 0..Len(s) : MatchesAt(s, sub, i)

\* --------------------------------------------------------- split_text body
\* lines 299-316: the cut point chosen for the window starting at st
WordCut(t, st, e) ==
    LET last_space == rfind(t, <<" ">>, st, e)
    IN  IF last_space > st THEN [end |-> last_space, kind |-> "word"]
                           ELSE [end |-> e, kind |-> "hard"]

SentenceCut(t, st, e) ==
    LET last_period == rfind(t, <<".", " ">>, st, e)
    IN  IF last_period > st THEN [end |-> last_period + 1, kind |-> "sentence"]
                            ELSE WordCut(t, st, e)

ParagraphCut(t, st, e) ==
    LET last_double_newline == rfind(t, <<"\n", "\n">>, st, e)
    IN  IF last_double_newline > st
        THEN [end |-> last_double_newline, kind |-> "paragraph"]
        ELSE SentenceCut(t, st, e)

CutPoint(t, st, size) ==
    LET e == st + size
    IN  IF e < Len(t) THEN ParagraphCut(t, st, e)
                      ELSE [end |-> e, kind |-> "tail"]

\* line 322
NextStartPastEnd(t, e, overlap) == IF e < Len(t) THEN e + 1 ELSE e
NextStart(t, e, overlap) == IF e < Len(t) THEN e - overlap ELSE e

\* lines 318-320
Emit(cs, t, st, e) ==
    LET chunk == strip(Slice(t, st, e))
    IN  IF chunk # <<>> THEN Append(cs, chunk) ELSE cs

\* ------------------------------------------------------------- assembling
\* lines 86-99 and 128-142: one Document per chunk
DocumentCountingFromOne(chunk, idx, total, loader) ==
    [content |-> chunk, chunk_id |-> idx, chunk_index |-> idx + 1,
     total_chunks |-> total, loader |-> loader]

Document(chunk, idx, total, loader) ==
    [content |-> chunk, chunk_id |-> idx, chunk_index |-> idx,
     total_chunks |-> total, loader |-> loader]

Assemble(cs, loader) ==
    [i \in 1..Len(cs) |-> Document(cs[i], i - 1, Len(cs), loader)]

Loaders == {"load_document", "load_uploaded_file"}

\* ------------------------------------------------- the synchronised corpus
MaxVersion == 2
TickStep == 31
MaxClock == 62
\* main line 303: `if time_since_check > 30`
AutoCheckInterval == 30

\* the files of the watched repository, by their repository-relative path:
\* "d/a", "l/d/a" (the same path nested one directory deeper) and "b"
Files == {<<"d", "/", "a">>, <<"l", "/", "d", "/", "a">>, <<"b">>}
\* str(config.DOCS_REPO_PATH)
RepoPath == <<"r">>
\* load_document line 90: source=str(file_path), file_path yielded by
\* directory.rglob('*'), i.e. the directory joined with the relative path
Source(f) == RepoPath \o <<"/">> \o f
\* the repository-relative path a source identifier stands for
Normalize(src) ==
    LET prefix == RepoPath \o <<"/">>
    IN  IF Len(src) >= Len(prefix) /\ SubSeq(src, 1, Len(prefix)) = prefix
        THEN SubSeq(src, Len(prefix) + 1, Len(src))
        ELSE src

Versions == 1..MaxVersion
\* the chunks load_document yields for file f holding content version v; a
\* later version of a file splits into one chunk more
FileDocs(f, v) == {[source |-> Source(f), chunk_id |-> i, ver |-> v] : i \in 0..(v - 1)}

\* load_documents_from_directory lines 55-64: every file is loaded, a file
\* whose load fails contributes nothing (ok: the files that load)
load_documents_from_directory(d, ok) ==
    UNION {FileDocs(f, d[f]) : f \in ok}

\* filter_changed_documents lines 339-347 (lists taken as sets: the result
\* keeps a document iff the inner loop finds a changed_file `in` its source)
filter_changed_documents(all_docs, changed) ==
    {doc \in all_docs : \E changed_file \in changed : Contains(doc.source, changed_file)}

\* Index.removeDocuments(sourceIds): drops every chunk indexed under one of
\* the sources
remove_documents(idx, sourceIds) ==
    {doc \in idx : Normalize(doc.source) \notin sourceIds}

\* Index.indexDocuments(chunks): adds the chunks to the chunk set
index_documents(idx, new_docs) == idx \cup new_docs

\* Watcher.checkForUpdates(): true iff the remote changed
has_updates(r, d) == r # d

\* Watcher.getChangedFiles(): the paths the last pull changed
get_changed_files(p) == p

\* main line 302-303
Due(now, last) == now - last > AutoCheckInterval

\* the chunks the index holds for one source
ChunksOf(idx, src) == {doc \in idx : doc.source = src}

\* pull_updates() returns True, returns False, or raises
Outcomes == {"ok", "fail", "raise"}

\* line 60: `if st.session_state.git_watcher.pull_updates():`, and line 78
AfterPullIgnoringFailure(outcome) == "changed"
AfterPull(outcome) == IF outcome = "ok" THEN "changed" ELSE "ret"

\* history of a cycle: the index and last_update it started from, and how
\* its pull ended
NoCycle == [index |-> {}, last_update |-> 0, pull |-> "none"]

\* the DocumentProcessor of the session is built with the default chunk size
\* and overlap (app.py line 31, __init__ line 26: 1000 and 200), here scaled
\* to the bounds: an overlap that is positive and below the chunk size
SyncChunkSize == MaxChunkSize
SyncChunkOverlap == SyncChunkSize \div 3

\* the text extracted from file f at content version v: the last version of
\* "b" begins with whitespace, every other content is one word
Content(f, v) ==
    IF f = <<"b">> /\ v = MaxVersion
    THEN <<" ", " ", "a", "a", "a">>
    ELSE <<"a", "a", "a", "a", "a">>

\* the while loop of split_text (lines 298-322) run from offset st: TRUE iff
\* an iteration begins at an offset an earlier iteration began at, FALSE iff
\* the loop exits. An iteration is a function of (text, start), so a loop that
\* revisits an offset never exits.
RECURSIVE Revisits(_, _, _, _, _)
Revisits(t, size, overlap, st, seen) ==
    IF st >= Len(t) THEN FALSE
    ELSE IF st \in seen THEN TRUE
    ELSE Revisits(t, size, overlap,
                  NextStart(t, CutPoint(t, st, size).end, overlap), seen \cup {st})

\* split_text(t) does not return (lines 292-296 and the loop)
Stalls(t, size, overlap) == Len(t) > size /\ Revisits(t, size, overlap, 0, {})

\* load_documents_from_directory lines 56-62 and load_document lines 103-105:
\* an exception while loading one file is logged and the loop goes on, so
\* check_for_updates goes on to line 71 whatever files failed (ok: the files
\* that loaded)
AfterLoadAbortingOnFailure(ok) == IF ok = Files THEN "filter" ELSE "ret"
AfterLoad(ok) == "filter"

\* ------------------------------------------------------------ the ingestors
\* what a fetch meets; "absent": the argument was not given
GithubEvents == {"ok", "mkdtemp_error", "clone_error"}
DriveEvents == {"ok", "bad_url", "network_error", "http_error", "stream_error"}
DropboxEvents == {"ok", "network_error", "http_error", "stream_error"}

\* GitHubRepoHandler.clone_repo lines 31-60: mkdtemp (line 33) makes the
\* directory before git runs (line 45); every exception returns None
clone_repo(ev) ==
    [path |-> IF ev = "ok" THEN "github_dir" ELSE "None",
     made |-> IF ev = "mkdtemp_error" THEN {} ELSE {"github_dir"}]

\* GoogleDriveHandler.download_file lines 90-131: no file id (line 92) or an
\* exception returns None; the response's status is not looked at, so the
\* body of an error response is written and its path returned; the file is
\* opened (line 121) before the body is streamed
drive_download_file(ev) ==
    [path |-> IF ev \in {"ok", "http_error"} THEN "drive_file" ELSE "None",
     made |-> IF ev \in {"ok", "http_error", "stream_error"} THEN {"drive_file"} ELSE {}]

\* DropboxHandler.download_file lines 164-196: raise_for_status (line 178)
\* turns an error response into an exception before the file is opened
dropbox_download_file(ev) ==
    [path |-> IF ev = "ok" THEN "dropbox_file" ELSE "None",
     made |-> IF ev \in {"ok", "stream_error"} THEN {"dropbox_file"} ELSE {}]

\* the names of the directly uploaded files
UploadNames == {<<"u", "1">>, <<"u", "2">>}

\* the documents a loader yields for one uploaded or fetched source
UploadDocs(src) == {[source |-> src, chunk_id |-> 0, ver |-> 1]}

Unfetched == [github |-> "unset", drive |-> "unset", dropbox |-> "unset"]

UploadIdle ==
    /\ upc = "idle"
    /\ request = [files |-> {}, github |-> "absent", drive |-> "absent",
                  dropbox |-> "absent"]
    /\ temp = {}
    /\ fetched = Unfetched
    /\ uploaded_docs = {}
    /\ returned = -1

SyncIdle ==
    /\ mpc = "wait"
    /\ cpc = "idle"
    /\ caller = "none"
    /\ result = FALSE
    /\ clock = 0
    /\ last_auto_check = 0
    /\ last_update = 0
    /\ remote = [f \in Files |-> 1]
    /\ disk = [f \in Files |-> 1]
    /\ pulled = {}
    /\ index = {}
    /\ changed_files = {}
    /\ docs = {}
    /\ changed_docs = {}
    /\ snap = NoCycle
    /\ calls = {}
    /\ watcher_calls = 0
    /\ overlapped = FALSE

SplitIdle ==
    /\ text = <<>>
    /\ chunk_size = 1
    /\ chunk_overlap = 0
    /\ spc = "call"
    /\ start = 0
    /\ chunks = <<>>
    /\ spans = <<>>
    /\ documents = <<>>

\* ------------------------------------------- actions of the segmenter
Texts == UNION {[1..n -> Chars] : n \in 0..MaxLen}

SplitInit ==
    /\ text \in Texts
    /\ chunk_size \in 1..MaxChunkSize
    /\ chunk_overlap \in 0..(chunk_size - 1)
    /\ spc = "call"
    /\ start = 0
    /\ chunks = <<>>
    /\ spans = <<>>
    /\ documents = <<>>
    /\ SyncIdle
    /\ UploadIdle

\* load_document lines 80-82: `if not content: return []`
LoadEmpty ==
    /\ spc = "call"
    /\ text = <<>>
    /\ spc' = "returned"
    /\ UNCHANGED <<text, chunk_size, chunk_overlap, start, chunks, spans, documents>>
    /\ UNCHANGED yvars
    /\ UNCHANGED uvars

\* split_text lines 292-293, called from line 84 or 126 (with content that
\* is not empty)
SplitShort ==
    /\ spc = "call"
    /\ text # <<>>
    /\ Len(text) <= chunk_size
    /\ chunks' = <<text>>
    /\ spc' = "done"
    /\ UNCHANGED <<text, chunk_size, chunk_overlap, start, spans, documents>>
    /\ UNCHANGED yvars
    /\ UNCHANGED uvars

\* split_text lines 295-296
SplitEnter ==
    /\ spc = "call"
    /\ text # <<>>
    /\ Len(text) > chunk_size
    /\ chunks' = <<>>
    /\ start' = 0
    /\ spc' = "loop"
    /\ UNCHANGED <<text, chunk_size, chunk_overlap, spans, documents>>
    /\ UNCHANGED yvars
    /\ UNCHANGED uvars

\* one iteration of the while loop, lines 298-322
SplitLoop ==
    /\ spc = "loop"
    /\ start < Len(text)
    /\ Len(spans) < MaxIter
    /\ LET cut == CutPoint(text, start, chunk_size)
       IN  /\ chunks' = Emit(chunks, text, start, cut.end)
           /\ spans' = Append(spans, [start |-> start, end |-> cut.end, kind |-> cut.kind])
           /\ start' = NextStart(text, cut.end, chunk_overlap)
    /\ UNCHANGED <<text, chunk_size, chunk_overlap, spc, documents>>
    /\ UNCHANGED yvars
    /\ UNCHANGED uvars

\* loop exit and `return chunks`, lines 298 and 324
SplitReturn ==
    /\ spc = "loop"
    /\ start >= Len(text)
    /\ spc' = "done"
    /\ UNCHANGED <<text, chunk_size, chunk_overlap, start, chunks, spans, documents>>
    /\ UNCHANGED yvars
    /\ UNCHANGED uvars

\* load_document lines 84-101 / load_uploaded_file lines 126-144, after the
\* call of split_text returned
LoadAssemble ==
    /\ spc = "done"
    /\ \E loader \in Loaders : documents' = Assemble(chunks, loader)
    /\ spc' = "returned"
    /\ UNCHANGED <<text, chunk_size, chunk_overlap, start, chunks, spans>>
    /\ UNCHANGED yvars
    /\ UNCHANGED uvars

SplitNext ==
    \/ LoadEmpty
    \/ SplitShort
    \/ SplitEnter
    \/ SplitLoop
    \/ SplitReturn
    \/ LoadAssemble

SplitSpec == SplitInit /\ [][SplitNext]_vars

\* ------------------------------------------- actions of the synchroniser
\* initialize_system lines 27-51, after a successful setup(): the whole
\* directory is indexed (ok: the files whose load succeeded)
SyncInit ==
    /\ SplitIdle
    /\ UploadIdle
    /\ mpc = "wait"
    /\ cpc = "idle"
    /\ caller = "none"
    /\ result = FALSE
    /\ clock = 0
    /\ last_auto_check = 0
    /\ last_update = 0
    /\ remote = [f \in Files |-> 1]
    /\ disk = [f \in Files |-> 1]
    /\ pulled = {}
    /\ \E ok \in SUBSET Files :
          index = index_documents({}, load_documents_from_directory(disk, ok))
    /\ changed_files = {}
    /\ docs = {}
    /\ changed_docs = {}
    /\ snap = NoCycle
    /\ calls = {}
    /\ watcher_calls = 0
    /\ overlapped = FALSE

\* time passes
Tick ==
    /\ clock + TickStep <= MaxClock
    /\ clock' = clock + TickStep
    /\ UNCHANGED <<mpc, cpc, caller, result, last_auto_check, last_update, remote,
                   disk, pulled, index, changed_files, docs, changed_docs, snap,
                   calls, watcher_calls, overlapped>>
    /\ UNCHANGED svars
    /\ UNCHANGED uvars

\* a commit lands upstream and changes one file
RemoteCommit ==
    /\ \E f \in Files :
          /\ remote[f] < MaxVersion
          /\ remote' = [remote EXCEPT ![f] = @ + 1]
    /\ UNCHANGED <<mpc, cpc, caller, result, clock, last_auto_check, last_update,
                   disk, pulled, index, changed_files, docs, changed_docs, snap,
                   calls, watcher_calls, overlapped>>
    /\ UNCHANGED svars
    /\ UNCHANGED uvars

\* an interaction reruns the script; main lines 244-245: the button
Rerun ==
    /\ mpc = "wait"
    /\ \E clicked \in BOOLEAN : mpc' = IF clicked THEN "manual" ELSE "auto"
    /\ watcher_calls' = 0
    /\ overlapped' = FALSE
    /\ UNCHANGED <<cpc, caller, result, clock, last_auto_check, last_update, remote,
                   disk, pulled, index, changed_files, docs, changed_docs, snap, calls>>
    /\ UNCHANGED svars
    /\ UNCHANGED uvars

\* check_for_updates is entered (line 54)
Enter(who) ==
    /\ cpc' = "check"
    /\ caller' = who
    /\ result' = FALSE
    /\ snap' = [index |-> index, last_update |-> last_update, pull |-> "none"]
    /\ calls' = {}
    /\ changed_files' = {}
    /\ docs' = {}
    /\ changed_docs' = {}

\* check_for_updates has returned: its locals are gone
Leave ==
    /\ snap' = NoCycle
    /\ calls' = {}
    /\ changed_files' = {}
    /\ docs' = {}
    /\ changed_docs' = {}

\* main line 245: the manual trigger
ManualTrigger ==
    /\ mpc = "manual"
    /\ cpc = "idle"
    /\ Enter("manual")
    /\ UNCHANGED <<mpc, clock, last_auto_check, last_update, remote, disk, pulled,
                   index, watcher_calls, overlapped>>
    /\ UNCHANGED svars
    /\ UNCHANGED uvars

\* main lines 302-304: the periodic trigger, when the interval has elapsed
AutoTrigger ==
    /\ mpc = "auto"
    /\ cpc = "idle"
    /\ Due(clock, last_auto_check)
    /\ Enter("auto")
    /\ UNCHANGED <<mpc, clock, last_auto_check, last_update, remote, disk, pulled,
                   index, watcher_calls, overlapped>>
    /\ UNCHANGED svars
    /\ UNCHANGED uvars

\* main line 303, the interval has not elapsed: the script run ends
AutoSkip ==
    /\ mpc = "auto"
    /\ cpc = "idle"
    /\ ~Due(clock, last_auto_check)
    /\ mpc' = "wait"
    /\ UNCHANGED <<cpc, caller, result, clock, last_auto_check, last_update, remote,
                   disk, pulled, index, changed_files, docs, changed_docs, snap,
                   calls, watcher_calls, overlapped>>
    /\ UNCHANGED svars
    /\ UNCHANGED uvars

\* line 58: git_watcher.check_for_updates(); False or an exception (line 78)
\* leads to `return False`
WatcherCheck ==
    /\ cpc = "check"
    /\ calls' = calls \cup {"check_for_updates"}
    /\ watcher_calls' = watcher_calls + 1
    /\ \E raised \in BOOLEAN :
          cpc' = IF ~raised /\ has_updates(remote, disk) THEN "pull" ELSE "ret"
    /\ UNCHANGED <<mpc, caller, result, clock, last_auto_check, last_update, remote,
                   disk, pulled, index, changed_files, docs, changed_docs, snap,
                   overlapped>>
    /\ UNCHANGED svars
    /\ UNCHANGED uvars

\* line 60: git_watcher.pull_updates()
PullUpdates ==
    /\ cpc = "pull"
    /\ calls' = calls \cup {"pull_updates"}
    /\ \E outcome \in Outcomes :
          /\ IF outcome = "ok"
             THEN /\ disk' = remote
                  /\ pulled' = {f \in Files : disk[f] # remote[f]}
             ELSE UNCHANGED <<disk, pulled>>
          /\ cpc' = AfterPull(outcome)
          /\ snap' = [snap EXCEPT !.pull = outcome]
    /\ UNCHANGED <<mpc, caller, result, clock, last_auto_check, last_update, remote,
                   index, changed_files, docs, changed_docs, watcher_calls,
                   overlapped>>
    /\ UNCHANGED svars
    /\ UNCHANGED uvars

\* line 62
GetChangedFiles ==
    /\ cpc = "changed"
    /\ calls' = calls \cup {"get_changed_files"}
    /\ \E raised \in BOOLEAN :
          IF raised
          THEN cpc' = "ret" /\ UNCHANGED changed_files
          ELSE cpc' = "remove" /\ changed_files' = get_changed_files(pulled)
    /\ UNCHANGED <<mpc, caller, result, clock, last_auto_check, last_update, remote,
                   disk, pulled, index, docs, changed_docs, snap, watcher_calls,
                   overlapped>>
    /\ UNCHANGED svars
    /\ UNCHANGED uvars

\* line 65
RemoveDocuments ==
    /\ cpc = "remove"
    /\ calls' = calls \cup {"remove_documents"}
    /\ \E raised \in BOOLEAN :
          IF raised
          THEN cpc' = "ret" /\ UNCHANGED index
          ELSE cpc' = "load" /\ index' = remove_documents(index, changed_files)
    /\ UNCHANGED <<mpc, caller, result, clock, last_auto_check, last_update, remote,
                   disk, pulled, changed_files, docs, changed_docs, snap,
                   watcher_calls, overlapped>>
    /\ UNCHANGED svars
    /\ UNCHANGED uvars

\* lines 68-70. Every file that is read is split (load_document line 84); on a
\* content split_text does not return from, the call of line 68 never returns:
\* the cycle stays at "splitting"
LoadDocuments ==
    /\ cpc = "load"
    /\ calls' = calls \cup {"load_documents_from_directory"}
    /\ \E ok \in SUBSET Files :
          IF \E f \in ok : Stalls(Content(f, disk[f]), SyncChunkSize, SyncChunkOverlap)
          THEN cpc' = "splitting" /\ UNCHANGED docs
          ELSE cpc' = AfterLoad(ok) /\ docs' = load_documents_from_directory(disk, ok)
    /\ UNCHANGED <<mpc, caller, result, clock, last_auto_check, last_update, remote,
                   disk, pulled, index, changed_files, changed_docs, snap,
                   watcher_calls, overlapped>>
    /\ UNCHANGED svars
    /\ UNCHANGED uvars

\* lines 71-73
FilterChanged ==
    /\ cpc = "filter"
    /\ calls' = calls \cup {"filter_changed_documents"}
    /\ changed_docs' = filter_changed_documents(docs, changed_files)
    /\ cpc' = "index"
    /\ UNCHANGED <<mpc, caller, result, clock, last_auto_check, last_update, remote,
                   disk, pulled, index, changed_files, docs, snap, watcher_calls,
                   overlapped>>
    /\ UNCHANGED svars
    /\ UNCHANGED uvars

\* line 74
IndexDocuments ==
    /\ cpc = "index"
    /\ calls' = calls \cup {"index_documents"}
    /\ \E raised \in BOOLEAN :
          IF raised
          THEN cpc' = "ret" /\ UNCHANGED index
          ELSE cpc' = "stamp" /\ index' = index_documents(index, changed_docs)
    /\ UNCHANGED <<mpc, caller, result, clock, last_auto_check, last_update, remote,
                   disk, pulled, changed_files, docs, changed_docs, snap,
                   watcher_calls, overlapped>>
    /\ UNCHANGED svars
    /\ UNCHANGED uvars

\* lines 76-77
Stamp ==
    /\ cpc = "stamp"
    /\ last_update' = clock
    /\ result' = TRUE
    /\ cpc' = "ret"
    /\ UNCHANGED <<mpc, caller, clock, last_auto_check, remote, disk, pulled, index,
                   changed_files, docs, changed_docs, snap, calls, watcher_calls,
                   overlapped>>
    /\ UNCHANGED svars
    /\ UNCHANGED uvars

\* check_for_updates returns to main line 245: the script goes on to the
\* periodic test of line 303
ManualReturn ==
    /\ cpc = "ret"
    /\ caller = "manual"
    /\ cpc' = "idle"
    /\ mpc' = "auto"
    /\ overlapped' = Due(clock, last_auto_check)
    /\ Leave
    /\ UNCHANGED <<caller, result, clock, last_auto_check, last_update, remote, disk,
                   pulled, index, watcher_calls>>
    /\ UNCHANGED svars
    /\ UNCHANGED uvars

\* check_for_updates returns to main line 304; line 305
AutoReturn ==
    /\ cpc = "ret"
    /\ caller = "auto"
    /\ cpc' = "idle"
    /\ mpc' = "wait"
    /\ last_auto_check' = clock
    /\ Leave
    /\ UNCHANGED <<caller, result, clock, last_update, remote, disk, pulled, index,
                   watcher_calls, overlapped>>
    /\ UNCHANGED svars
    /\ UNCHANGED uvars

SyncNext ==
    \/ Tick
    \/ RemoteCommit
    \/ Rerun
    \/ ManualTrigger
    \/ AutoTrigger
    \/ AutoSkip
    \/ WatcherCheck
    \/ PullUpdates
    \/ GetChangedFiles
    \/ RemoveDocuments
    \/ LoadDocuments
    \/ FilterChanged
    \/ IndexDocuments
    \/ Stamp
    \/ ManualReturn
    \/ AutoReturn

SyncSpec == SyncInit /\ [][SyncNext]_vars

\* ------------------------------------- actions of process_uploaded_sources
\* the yvars an upload leaves alone (it writes index and last_update)
ysession == <<mpc, cpc, caller, result, clock, last_auto_check, remote, disk, pulled,
              changed_files, docs, changed_docs, snap, calls, watcher_calls,
              overlapped>>

\* a call of process_uploaded_sources (line 84) with arguments that meet
\* whatever the environment holds for them
UploadInit ==
    /\ SplitIdle
    /\ SyncIdle
    /\ upc = "files"
    /\ request \in [files : SUBSET UploadNames,
                    github : GithubEvents \cup {"absent"},
                    drive : DriveEvents \cup {"absent"},
                    dropbox : DropboxEvents \cup {"absent"}]
    /\ temp = {}
    /\ fetched = Unfetched
    /\ uploaded_docs = {}
    /\ returned = -1

\* lines 89-94: each uploaded file is loaded (ok: the files that yield chunks)
LoadUploads ==
    /\ upc = "files"
    /\ \E ok \in SUBSET request.files :
          uploaded_docs' = uploaded_docs \cup UNION {UploadDocs(f) : f \in ok}
    /\ upc' = "github"
    /\ UNCHANGED <<request, temp, fetched, returned>>
    /\ UNCHANGED <<svars, ysession, index, last_update>>

\* line 97, no github_url
SkipGithub ==
    /\ upc = "github"
    /\ request.github = "absent"
    /\ upc' = "drive"
    /\ UNCHANGED <<request, temp, fetched, uploaded_docs, returned>>
    /\ UNCHANGED <<svars, ysession, index, last_update>>

\* line 99: GitHubRepoHandler.clone_repo(github_url)
CallCloneRepo ==
    /\ upc = "github"
    /\ request.github # "absent"
    /\ fetched' = [fetched EXCEPT !.github = clone_repo(request.github).path]
    /\ temp' = temp \cup clone_repo(request.github).made
    /\ upc' = "github_fetched"
    /\ UNCHANGED <<request, uploaded_docs, returned>>
    /\ UNCHANGED <<svars, ysession, index, last_update>>

\* lines 100-110: load the clone and remove it, or report the failure
AfterCloneRepo ==
    /\ upc = "github_fetched"
    /\ IF fetched.github # "None"
       THEN /\ \E loads \in BOOLEAN :
                  uploaded_docs' = IF loads THEN uploaded_docs \cup UploadDocs(<<"g">>)
                                            ELSE uploaded_docs
            /\ temp' = temp \ {fetched.github}
       ELSE UNCHANGED <<uploaded_docs, temp>>
    /\ upc' = "drive"
    /\ UNCHANGED <<request, fetched, returned>>
    /\ UNCHANGED <<svars, ysession, index, last_update>>

\* line 113, no drive_url
SkipDrive ==
    /\ upc = "drive"
    /\ request.drive = "absent"
    /\ upc' = "dropbox"
    /\ UNCHANGED <<request, temp, fetched, uploaded_docs, returned>>
    /\ UNCHANGED <<svars, ysession, index, last_update>>

\* line 115: GoogleDriveHandler.download_file(drive_url)
CallDriveDownload ==
    /\ upc = "drive"
    /\ request.drive # "absent"
    /\ fetched' = [fetched EXCEPT !.drive = drive_download_file(request.drive).path]
    /\ temp' = temp \cup drive_download_file(request.drive).made
    /\ upc' = "drive_fetched"
    /\ UNCHANGED <<request, uploaded_docs, returned>>
    /\ UNCHANGED <<svars, ysession, index, last_update>>

\* lines 116-126
AfterDriveDownload ==
    /\ upc = "drive_fetched"
    /\ IF fetched.drive # "None"
       THEN /\ \E loads \in BOOLEAN :
                  uploaded_docs' = IF loads THEN uploaded_docs \cup UploadDocs(<<"v">>)
                                            ELSE uploaded_docs
            /\ temp' = temp \ {fetched.drive}
       ELSE UNCHANGED <<uploaded_docs, temp>>
    /\ upc' = "dropbox"
    /\ UNCHANGED <<request, fetched, returned>>
    /\ UNCHANGED <<svars, ysession, index, last_update>>

\* line 129, no dropbox_url
SkipDropbox ==
    /\ upc = "dropbox"
    /\ request.dropbox = "absent"
    /\ upc' = "index"
    /\ UNCHANGED <<request, temp, fetched, uploaded_docs, returned>>
    /\ UNCHANGED <<svars, ysession, index, last_update>>

\* line 131: DropboxHandler.download_file(dropbox_url)
CallDropboxDownload ==
    /\ upc = "dropbox"
    /\ request.dropbox # "absent"
    /\ fetched' = [fetched EXCEPT !.dropbox = dropbox_download_file(request.dropbox).path]
    /\ temp' = temp \cup dropbox_download_file(request.dropbox).made
    /\ upc' = "dropbox_fetched"
    /\ UNCHANGED <<request, uploaded_docs, returned>>
    /\ UNCHANGED <<svars, ysession, index, last_update>>

\* lines 132-142
AfterDropboxDownload ==
    /\ upc = "dropbox_fetched"
    /\ IF fetched.dropbox # "None"
       THEN /\ \E loads \in BOOLEAN :
                  uploaded_docs' = IF loads THEN uploaded_docs \cup UploadDocs(<<"x">>)
                                            ELSE uploaded_docs
            /\ temp' = temp \ {fetched.dropbox}
       ELSE UNCHANGED <<uploaded_docs, temp>>
    /\ upc' = "index"
    /\ UNCHANGED <<request, fetched, returned>>
    /\ UNCHANGED <<svars, ysession, index, last_update>>

\* lines 145-150
IndexUploads ==
    /\ upc = "index"
    /\ IF uploaded_docs # {}
       THEN /\ index' = index_documents(index, uploaded_docs)
            /\ last_update' = clock
       ELSE UNCHANGED <<index, last_update>>
    /\ returned' = Cardinality(uploaded_docs)
    /\ upc' = "returned"
    /\ UNCHANGED <<request, temp, fetched, uploaded_docs>>
    /\ UNCHANGED <<svars, ysession>>

UploadNext ==
    \/ Tick
    \/ LoadUploads
    \/ SkipGithub
    \/ CallCloneRepo
    \/ AfterCloneRepo
    \/ SkipDrive
    \/ CallDriveDownload
    \/ AfterDriveDownload
    \/ SkipDropbox
    \/ CallDropboxDownload
    \/ AfterDropboxDownload
    \/ IndexUploads

UploadSpec == UploadInit /\ [][UploadNext]_vars

\* ================================================================= claims

\* C1: split_text terminates for every text and every 0 <= overlap <
\* chunk_size. An iteration of the loop is a function of (text, start) alone,
\* so the loop terminates iff no iteration begins at an offset an earlier
\* iteration of the same call began at.
C1_Terminates ==
    (spc = "loop") => \A i \in 1..Len(spans) : spans[i].start # start

\* C2: `start` is never negative and strictly increases from each loop
\* iteration to the next.
C2_StartIncreases ==
    (spc = "loop" /\ spans # <<>>) =>
        /\ start >= 0
        /\ start > spans[Len(spans)].start

\* C3: filter_changed_documents selects a document iff its normalized source
\* identifier is exactly equal to some changed-file identifier.
C3_ExactMatch ==
    (cpc = "index") =>
        \A doc \in docs :
            doc \in changed_docs <=> Normalize(doc.source) \in changed_files

\* C4: after a successful cycle with change-set C the index holds, for each
\* source of C, exactly its freshly computed chunks, and the chunk set of
\* every source outside C is what it was before the cycle.
C4_CycleFrame ==
    (cpc = "ret" /\ result) =>
        \A f \in Files :
            IF f \in changed_files
            THEN ChunksOf(index, Source(f)) = ChunksOf(docs, Source(f))
            ELSE ChunksOf(index, Source(f)) = ChunksOf(snap.index, Source(f))

\* C5: when the periodic trigger has fired before the manually triggered
\* cycle returned to Idle, only one cycle runs in that script run: the second
\* trigger is dropped without calling the watcher.
C5_SingleFlight == overlapped => watcher_calls <= 1

\* C6: when pull_updates fails, check_for_updates mutates nothing in the
\* index, reads no change-set, recomputes no documents, leaves last_update
\* alone and returns False.
AfterPullCalls ==
    {"get_changed_files", "remove_documents", "load_documents_from_directory",
     "filter_changed_documents", "index_documents"}

C6_PullFailure ==
    (snap.pull \in {"fail", "raise"}) =>
        /\ cpc = "ret"
        /\ result = FALSE
        /\ index = snap.index
        /\ last_update = snap.last_update
        /\ calls \cap AfterPullCalls = {}

\* a pull failed in a cycle that had chunks to lose and a newer time to stamp
C6_Witness ==
    /\ cpc = "ret"
    /\ snap.pull = "fail"
    /\ snap.index # {}
    /\ clock > snap.last_update

\* C7: for len(text) <= chunk_size, split_text returns exactly one chunk,
\* equal to the trimmed text.
C7_ShortTextTrimmed ==
    (spc = "done" /\ Len(text) <= chunk_size) => chunks = <<strip(text)>>

\* C8: every chunk split_text emits, and the content of every Document of a
\* loader, is non-empty after trimming.
C8_ChunksNonEmpty ==
    /\ \A i \in 1..Len(chunks) : strip(chunks[i]) # <<>>
    /\ \A i \in 1..Len(documents) : strip(documents[i].content) # <<>>

\* C9: the documents of one batch all carry total_chunks = the size of the
\* batch, chunk_index = chunk_id, and chunk_index runs 0..total_chunks-1 in
\* order.
C9_BatchMetadata ==
    (spc = "returned") =>
        \A i \in 1..Len(documents) :
            /\ documents[i].total_chunks = Len(documents)
            /\ documents[i].chunk_index = documents[i].chunk_id
            /\ documents[i].chunk_index = i - 1

\* a batch of several documents, one of whose spans was dropped as empty
C9_Witness ==
    /\ spc = "returned"
    /\ Len(documents) >= 2
    /\ Len(spans) > Len(documents)

\* C10: a window that ends before the end of the text is cut at its last
\* paragraph break after start, else after its last sentence terminator, else
\* at its last whitespace character (any whitespace), else at start+chunk_size.
ParagraphBreaks(t, st, e) ==
    {i \in (st + 1)..(e - 2) : MatchesAt(t, <<"\n", "\n">>, i)}
SentenceEnds(t, st, e) ==
    {i \in (st + 1)..(e - 2) : MatchesAt(t, <<".", " ">>, i)}
WhitespaceAt(t, st, e) ==
    {i \in (st + 1)..(e - 1) : t[i + 1] \in Whitespace}

ClaimedCut(t, st, e) ==
    IF ParagraphBreaks(t, st, e) # {} THEN SetMax(ParagraphBreaks(t, st, e))
    ELSE IF SentenceEnds(t, st, e) # {} THEN SetMax(SentenceEnds(t, st, e)) + 1
    ELSE IF WhitespaceAt(t, st, e) # {} THEN SetMax(WhitespaceAt(t, st, e))
    ELSE e

C10_CutPriority ==
    \A i \in 1..Len(spans) :
        LET st == spans[i].start
            e == st + chunk_size
        IN  (st >= 0 /\ e < Len(text)) => spans[i].end = ClaimedCut(text, st, e)

\* C11: when split_text returns, its spans cover the text without gaps (the
\* first begins at 0, each next one begins at or before the end of the one
\* before, the last ends at or after len(text)), and every character of the
\* text that is not whitespace lies in a span whose trimmed content is one of
\* the returned chunks.
SpanPositions(t, st, e) == (PyClamp(st, Len(t)) + 1)..PyClamp(e, Len(t))

C12_PathOnlyOnSuccess ==
    /\ fetched.github # "unset" => (fetched.github # "None" <=> request.github = "ok")
    /\ fetched.drive # "unset" => (fetched.drive # "None" <=> request.drive = "ok")
    /\ fetched.dropbox # "unset" => (fetched.dropbox # "None" <=> request.dropbox = "ok")

\* C13: when process_uploaded_sources has returned, every temporary directory
\* or file an ingestor made during the call is gone.
C13_TempReleased == (upc = "returned") => temp = {}

\* C14: every source that is about to receive new chunks from index_documents
\* has had all of its previously indexed chunks removed earlier in the cycle.
C14_RemoveBeforeAdd ==
    (cpc = "index") => \A doc \in changed_docs : ChunksOf(index, doc.source) = {}

\* C15: whenever a cycle ends with the failure signal, the index is what it
\* was when the cycle began.
C15_FailureLeavesIndex ==
    (cpc = "ret" /\ ~result) => index = snap.index

\* C16: in a cycle with several changed sources, a changed source whose
\* extraction failed loses its old chunks and gets none, every other changed
\* source holds exactly its fresh chunks, and the failed extraction does not
\* make the cycle fail: a cycle that got past the load fails only if
\* index_documents was reached and raised.
C16_ExtractionFailure ==
    /\ (cpc = "ret" /\ result) =>
          \A f \in changed_files :
              ChunksOf(index, Source(f)) =
                  IF ChunksOf(docs, Source(f)) = {} THEN {} ELSE FileDocs(f, disk[f])
    /\ (cpc = "ret" /\ ~result /\ "load_documents_from_directory" \in calls) =>
          "index_documents" \in calls

\* a successful cycle with two changed sources that both had chunks: the
\* extraction of one failed, the other was re-added with different chunks
C16_Witness ==
    /\ cpc = "ret"
    /\ result
    /\ \E f, g \in changed_files :
          /\ f # g
          /\ ChunksOf(snap.index, Source(f)) # {}
          /\ ChunksOf(docs, Source(f)) = {}
          /\ ChunksOf(index, Source(f)) = {}
          /\ ChunksOf(snap.index, Source(g)) # {}
          /\ ChunksOf(index, Source(g)) = FileDocs(g, disk[g])
          /\ ChunksOf(index, Source(g)) # ChunksOf(snap.index, Source(g))

\* C17: every cycle a trigger started finishes. A cycle is a bounded sequence
\* of steps (check, pull, changed, remove, load, filter, index, stamp, return),
\* so it finishes iff it is never at a step from which it cannot go on.
CycleStep ==
    \/ WatcherCheck
    \/ PullUpdates
    \/ GetChangedFiles
    \/ RemoveDocuments
    \/ LoadDocuments
    \/ FilterChanged
    \/ IndexDocuments
    \/ Stamp
    \/ ManualReturn
    \/ AutoReturn

C17_CycleFinishes == (cpc # "idle") => ENABLED CycleStep

====
